---- MODULE Spec2Model ----
(***************************************************************************)
(* Water-sort solver: the two solver copies (the imperative one that is    *)
(* appended to src/src/api/middleware.ts and the functional rewrite that   *)
(* is appended to src/src/api/routes.ts), the POST /solve handler and the  *)
(* client-side replay of an annotated solution.                            *)
(*                                                                         *)
(* Vials are sequences of colors, bottom first (index 1 is the bottom, the *)
(* last index is the top).  Vial indices in moves are 0-based as in the    *)
(* source; vials[i] of the source is vials[i + 1] here.                    *)
(***************************************************************************)
EXTENDS Integers, Sequences, FiniteSets, Bags, TLC

\* ------------------------------------------------------------------ bounds
MaxVials == 3          \* configurations have at most MaxVials vials
MaxUnits == 5          \* and at most MaxUnits color units in total
BudgetM  == 12          \* scaled stand-in for MAX_SEARCH_STATES = 1000000
BudgetR  == 5          \* scaled stand-in for MAX_SEARCH_STATES = 100000
MaxOverfill == 1       \* a vial of the input exceeds the capacity by at most this much
MaxCalls == 3          \* solvePuzzle is called at most MaxCalls times in a row
AgainUnits == 3        \* on vials that hold at most AgainUnits color units in total
DeepUnits == 7         \* the fuller puzzles hold at most DeepUnits color units
DeepBudget == 1000     \* and are searched with a budget they cannot use up
KeyVials == 2          \* keys are compared for configurations of at most KeyVials vials
KeyLen   == 2          \* of at most KeyLen entries each
MaxInflight == 2       \* at most MaxInflight file reads and fetches are under way at once

Colors   == {"r", "b"}
Copies   == {"middleware", "routes"}

\* --------------------------------------------------------------- constants
MAX_VIAL_CAPACITY == 4

\* MAX_SEARCH_STATES of each copy, scaled down so that a search can use it up
ScaledBudget == [c \in Copies |-> IF c = "middleware" THEN BudgetM ELSE BudgetR]

\* MAX_SEARCH_STATES of each copy where no puzzle of the bounds comes near it
AmpleBudget == [c \in Copies |-> DeepBudget]

\* ----------------------------------------------------------------- helpers
Min(a, b) == IF a <= b THEN a ELSE b
Max(a, b) == IF a >= b THEN a ELSE b

RECURSIVE Repeat(_, _)
\* Array(n).fill(x)
Repeat(x, n) == IF n <= 0 THEN <<>> ELSE <<x>> \o Repeat(x, n - 1)

RECURSIVE Reverse(_)
Reverse(s) == IF s = <<>> THEN <<>> ELSE Reverse(Tail(s)) \o <<Head(s)>>

\* Array.prototype.slice(0, -n): n = 0 is slice(0, 0), the empty array
SliceHead(v, n) == IF n = 0 THEN <<>> ELSE SubSeq(v, 1, Max(0, Len(v) - n))

\* Array.prototype.slice(-n): n = 0 is slice(0), the whole array
SliceTail(v, n) == IF n = 0 THEN v ELSE SubSeq(v, Max(1, Len(v) - n + 1), Len(v))

\* Array.prototype.join
RECURSIVE Join(_, _)
Join(s, sep) ==
  IF s = <<>> THEN ""
  ELSE IF Len(s) = 1 THEN s[1]
  ELSE s[1] \o sep \o Join(Tail(s), sep)

\* --------------------------------------------------------------- GameState
GameState(vials, moves) == [vials |-> vials, moves |-> moves]

\* GameState.toString: vials joined by ',' and then by '|'
toString(state) ==
  Join([i \in 1..Len(state.vials) |-> Join(state.vials[i], ",")], "|")

RECURSIVE CountIn(_, _)
\* occurrences of color in one vial
CountIn(vial, color) ==
  IF vial = <<>> THEN 0
  ELSE (IF Head(vial) = color THEN 1 ELSE 0) + CountIn(Tail(vial), color)

RECURSIVE SumOver(_, _)
SumOver(vials, color) ==
  IF vials = <<>> THEN 0
  ELSE CountIn(Head(vials), color) + SumOver(Tail(vials), color)

\* getTotalColorCounts: color -> occurrences over all vials (0 = no entry)
getTotalColorCounts(vials) == [col \in Colors |-> SumOver(vials, col)]

\* the basic check shared by both copies
basicCheck(vials) ==
  \A i \in 1..Len(vials) :
     Len(vials[i]) = 0 \/ \A k \in 1..Len(vials[i]) : vials[i][k] = vials[i][1]

\* faulty variant of isSolvedM: strict mode wants every used vial filled to capacity
isSolvedMFull(state, strictMode) ==
  LET vials == state.vials
      dup == \E i, j \in 1..Len(vials) :
               /\ i < j /\ Len(vials[i]) > 0 /\ Len(vials[j]) > 0
               /\ vials[i][1] = vials[j][1]
  IN IF ~basicCheck(vials) THEN FALSE
     ELSE IF ~strictMode THEN TRUE
     ELSE IF dup THEN FALSE
     ELSE \A i \in 1..Len(vials) :
            Len(vials[i]) > 0 => Len(vials[i]) = MAX_VIAL_CAPACITY

\* isSolved of the imperative copy
isSolvedM(state, strictMode) ==
  LET vials == state.vials
      colorCounts == getTotalColorCounts(vials)
      \* two non-empty vials starting with the same color
      dup == \E i, j \in 1..Len(vials) :
               /\ i < j /\ Len(vials[i]) > 0 /\ Len(vials[j]) > 0
               /\ vials[i][1] = vials[j][1]
      \* colorLocations[color]: the one non-empty vial whose bottom is color
      located(col) == {i \in 1..Len(vials) : Len(vials[i]) > 0 /\ vials[i][1] = col}
  IN IF ~basicCheck(vials) THEN FALSE
     ELSE IF ~strictMode THEN TRUE
     ELSE IF dup THEN FALSE
     ELSE \A col \in Colors :
            colorCounts[col] > 0 =>
              \A i \in located(col) :
                 Len(vials[i]) = Min(colorCounts[col], MAX_VIAL_CAPACITY)

\* isSolved of the functional copy
isSolvedR(state, strictMode) ==
  LET vials == state.vials
      nonEmptyVials == {i \in 1..Len(vials) : Len(vials[i]) > 0}
      hasUniqueColors == \A i, j \in nonEmptyVials :
                            i < j => vials[i][1] # vials[j][1]
      colorCounts == getTotalColorCounts(vials)
  IN IF ~basicCheck(vials) THEN FALSE
     ELSE IF ~strictMode THEN TRUE
     ELSE IF ~hasUniqueColors THEN FALSE
     ELSE \A i \in nonEmptyVials :
            Len(vials[i]) = Min(colorCounts[vials[i][1]], MAX_VIAL_CAPACITY)

isSolved(c, state, strictMode) ==
  IF c = "middleware" THEN isSolvedM(state, strictMode)
  ELSE isSolvedR(state, strictMode)

\* ------------------------------------------------------------- move rules
NoSequence == [isNull |-> TRUE, color |-> "", count |-> 0]

RECURSIVE TopRun(_, _)
\* the loop of getTopColorSequence (imperative copy): walk down from the top
\* and stop at the first entry that differs from topColor
TopRun(vial, topColor) ==
  IF vial = <<>> \/ vial[Len(vial)] # topColor THEN 0
  ELSE 1 + TopRun(SubSeq(vial, 1, Len(vial) - 1), topColor)

\* getTopColorSequence of the imperative copy
getTopColorSequenceM(vial) ==
  IF Len(vial) = 0 THEN NoSequence
  ELSE [isNull |-> FALSE, color |-> vial[Len(vial)],
        count |-> TopRun(vial, vial[Len(vial)])]

\* getTopColorSequence of the functional copy: the reduce over the reversed
\* vial has no break, it adds 1 for every entry equal to topColor
getTopColorSequenceR(vial) ==
  IF Len(vial) = 0 THEN NoSequence
  ELSE [isNull |-> FALSE, color |-> vial[Len(vial)],
        count |-> CountIn(Reverse(vial), vial[Len(vial)])]

getTopColorSequence(c, vial) ==
  IF c = "middleware" THEN getTopColorSequenceM(vial)
  ELSE getTopColorSequenceR(vial)

\* faulty variant of isValidMove: a destination is full only above the capacity
isValidMoveAboveCapacity(state, from, to) ==
  LET sourceVial == state.vials[from + 1]
      destVial   == state.vials[to + 1]
  IN IF Len(sourceVial) = 0 THEN FALSE
     ELSE IF from = to THEN FALSE
     ELSE IF Len(destVial) > MAX_VIAL_CAPACITY THEN FALSE
     ELSE IF Len(destVial) = 0 THEN TRUE
     ELSE sourceVial[Len(sourceVial)] = destVial[Len(destVial)]

\* isValidMove (the two copies are textually the same)
isValidMove(state, from, to) ==
  LET sourceVial == state.vials[from + 1]
      destVial   == state.vials[to + 1]
  IN IF Len(sourceVial) = 0 THEN FALSE
     ELSE IF from = to THEN FALSE
     ELSE IF Len(destVial) >= MAX_VIAL_CAPACITY THEN FALSE
     ELSE IF Len(destVial) = 0 THEN TRUE
     ELSE sourceVial[Len(sourceVial)] = destVial[Len(destVial)]

\* what executeMove leaves behind when it throws
InvalidMove == [error |-> "Invalid move"]

\* the pour loop: destVial.push(sourceVial.pop()) unitsToPour times; pop() of
\* an empty array is undefined
PourLoop(vials, from, to, unitsToPour) ==
  LET src == vials[from + 1]
      dst == vials[to + 1]
      u   == Max(0, unitsToPour)
      n   == Min(u, Len(src))
  IN [vials EXCEPT
        ![from + 1] = SubSeq(src, 1, Len(src) - n),
        ![to + 1]   = dst \o Reverse(SubSeq(src, Len(src) - n + 1, Len(src)))
                          \o Repeat("undefined", u - n)]

\* faulty variant of executeMoveM: the whole run is poured, whatever space is left
executeMoveMNoSpace(state, from, to) ==
  IF ~isValidMove(state, from, to) THEN InvalidMove
  ELSE
    LET topSequence == getTopColorSequenceM(state.vials[from + 1])
    IN IF topSequence.isNull THEN state
       ELSE GameState(PourLoop(state.vials, from, to, topSequence.count),
                      Append(state.moves, [from |-> from, to |-> to]))

\* executeMove of the imperative copy
executeMoveM(state, from, to) ==
  IF ~isValidMove(state, from, to) THEN InvalidMove
  ELSE
    LET topSequence == getTopColorSequenceM(state.vials[from + 1])
        spaceInDest == MAX_VIAL_CAPACITY - Len(state.vials[to + 1])
        unitsToPour == Min(topSequence.count, spaceInDest)
    IN IF topSequence.isNull THEN state
       ELSE GameState(PourLoop(state.vials, from, to, unitsToPour),
                      Append(state.moves, [from |-> from, to |-> to]))

\* executeMove of the functional copy: the source keeps slice(0, -units), the
\* destination gets as many copies of the color as destVial.slice(-units) has
\* entries
executeMoveR(state, from, to) ==
  IF ~isValidMove(state, from, to) THEN InvalidMove
  ELSE
    LET topSequence == getTopColorSequenceR(state.vials[from + 1])
        spaceInDest == MAX_VIAL_CAPACITY - Len(state.vials[to + 1])
        unitsToPour == Min(topSequence.count, spaceInDest)
        newVials == [index \in 1..Len(state.vials) |->
           IF index = from + 1 THEN SliceHead(state.vials[index], unitsToPour)
           ELSE IF index = to + 1 THEN
             state.vials[index] \o
               Repeat(topSequence.color,
                      Len(SliceTail(state.vials[index], unitsToPour)))
           ELSE state.vials[index]]
    IN IF topSequence.isNull THEN state
       ELSE GameState(newVials, Append(state.moves, [from |-> from, to |-> to]))

executeMove(c, state, from, to) ==
  IF c = "middleware" THEN executeMoveM(state, from, to)
  ELSE executeMoveR(state, from, to)

\* all (from, to) pairs, ascending from and then ascending to
MovePairs(n) ==
  [k \in 1..(n * n) |-> [from |-> (k - 1) \div n, to |-> (k - 1) % n]]

\* faulty variant of generateNextStates: only from = to is filtered out
generateNextStatesUnchecked(c, state) ==
  LET valid(p) == p.from # p.to
      pairs == SelectSeq(MovePairs(Len(state.vials)), valid)
  IN [k \in 1..Len(pairs) |-> executeMove(c, state, pairs[k].from, pairs[k].to)]

\* faulty variant of generateNextStates: the inner loop starts at from + 1
generateNextStatesUpper(c, state) ==
  LET valid(p) == p.to > p.from /\ isValidMove(state, p.from, p.to)
      pairs == SelectSeq(MovePairs(Len(state.vials)), valid)
  IN [k \in 1..Len(pairs) |-> executeMove(c, state, pairs[k].from, pairs[k].to)]

\* generateNextStates: successors of the valid pairs, in MovePairs order
generateNextStates(c, state) ==
  LET valid(p) == isValidMove(state, p.from, p.to)
      pairs == SelectSeq(MovePairs(Len(state.vials)), valid)
  IN [k \in 1..Len(pairs) |-> executeMove(c, state, pairs[k].from, pairs[k].to)]

\* ---------------------------------------------------------- move annotator
MoveWithColor(from, to, color, units) ==
  [from |-> from, to |-> to, color |-> color, units |-> units]

RECURSIVE EnrichLoopM(_, _, _)
\* the for loop of enrichMoves (imperative copy) over the remaining moves
EnrichLoopM(moves, currentVials, result) ==
  IF moves = <<>> THEN result
  ELSE
    LET from == Head(moves).from
        to   == Head(moves).to
        sourceVial == currentVials[from + 1]
        topColor == sourceVial[Len(sourceVial)]
        count == TopRun(sourceVial, topColor)
        spaceInDest == MAX_VIAL_CAPACITY - Len(currentVials[to + 1])
        unitsToPour == Min(count, spaceInDest)
    IN IF Len(sourceVial) = 0
       THEN EnrichLoopM(Tail(moves), currentVials, result)
       ELSE EnrichLoopM(Tail(moves),
                        PourLoop(currentVials, from, to, unitsToPour),
                        Append(result, MoveWithColor(from, to, topColor, unitsToPour)))

\* enrichMoves of the imperative copy
enrichMovesM(moves, initialVials) ==
  [thrown |-> FALSE, moves |-> EnrichLoopM(moves, initialVials, <<>>)]

RECURSIVE EnrichReduceR(_, _, _)
\* the reduce of enrichMoves (functional copy); Array(unitsToPour) with a
\* negative length is a RangeError
EnrichReduceR(moves, vials, acc) ==
  IF moves = <<>> THEN [thrown |-> FALSE, moves |-> acc]
  ELSE
    LET from == Head(moves).from
        to   == Head(moves).to
        sourceVial == vials[from + 1]
        topColor == sourceVial[Len(sourceVial)]
        count == CountIn(Reverse(sourceVial), topColor)
        spaceInDest == MAX_VIAL_CAPACITY - Len(vials[to + 1])
        unitsToPour == Min(count, spaceInDest)
        newVials == [index \in 1..Len(vials) |->
           IF index = from + 1 THEN SliceHead(vials[index], unitsToPour)
           ELSE IF index = to + 1
                THEN vials[index] \o Repeat(topColor, unitsToPour)
           ELSE vials[index]]
    IN IF Len(sourceVial) = 0 THEN EnrichReduceR(Tail(moves), vials, acc)
       ELSE IF unitsToPour < 0 THEN [thrown |-> TRUE, moves |-> <<>>]
       ELSE EnrichReduceR(Tail(moves), newVials,
                          Append(acc, MoveWithColor(from, to, topColor, unitsToPour)))

\* enrichMoves of the functional copy
enrichMovesR(moves, initialVials) == EnrichReduceR(moves, initialVials, <<>>)

enrichMoves(c, moves, initialVials) ==
  IF c = "middleware" THEN enrichMovesM(moves, initialVials)
  ELSE enrichMovesR(moves, initialVials)

\* ---------------------------------------------------------------- the search
NoState == [none |-> TRUE]

RECURSIVE ScanMLifo(_, _, _, _)
\* faulty variant of ScanM: queue.unshift instead of queue.push, a depth-first search
ScanMLifo(nextStates, strictMode, visited, queue) ==
  IF nextStates = <<>>
  THEN [solution |-> NoState, visited |-> visited, queue |-> queue]
  ELSE
    LET nextState == Head(nextStates)
        stateStr  == toString(nextState)
    IN IF stateStr \in visited
       THEN ScanMLifo(Tail(nextStates), strictMode, visited, queue)
       ELSE IF isSolvedM(nextState, strictMode)
       THEN [solution |-> nextState, visited |-> visited, queue |-> queue]
       ELSE ScanMLifo(Tail(nextStates), strictMode,
                      visited \cup {stateStr}, <<nextState>> \o queue)

RECURSIVE ScanM(_, _, _, _)
\* the for loop over nextStates in solvePuzzle (imperative copy): an unvisited
\* solved successor is returned at once, any other unvisited one is marked
\* visited and queued
ScanM(nextStates, strictMode, visited, queue) ==
  IF nextStates = <<>>
  THEN [solution |-> NoState, visited |-> visited, queue |-> queue]
  ELSE
    LET nextState == Head(nextStates)
        stateStr  == toString(nextState)
    IN IF stateStr \in visited
       THEN ScanM(Tail(nextStates), strictMode, visited, queue)
       ELSE IF isSolvedM(nextState, strictMode)
       THEN [solution |-> nextState, visited |-> visited, queue |-> queue]
       ELSE ScanM(Tail(nextStates), strictMode,
                  visited \cup {stateStr}, Append(queue, nextState))

RECURSIVE FindR(_, _, _, _)
\* the find callback of processState (functional copy): each candidate is
\* marked visited and queued, the first solved one ends the scan
FindR(candidates, strictMode, visited, queue) ==
  IF candidates = <<>>
  THEN [solution |-> NoState, visited |-> visited, queue |-> queue]
  ELSE
    LET nextState == Head(candidates)
        visited2  == visited \cup {toString(nextState)}
        queue2    == Append(queue, nextState)
    IN IF isSolvedR(nextState, strictMode)
       THEN [solution |-> nextState, visited |-> visited2, queue |-> queue2]
       ELSE FindR(Tail(candidates), strictMode, visited2, queue2)

\* processState (functional copy): the filter runs over all successors before
\* the find marks any of them
processState(nextStates, strictMode, visited, queue) ==
  LET unseen(nextState) == toString(nextState) \notin visited
  IN FindR(SelectSeq(nextStates, unseen), strictMode, visited, queue)

\* ------------------------------------------------------ initial configurations
\* vials of at most n entries
VialsUpTo(n) == UNION {[1..k -> Colors] : k \in 0..n}

RECURSIVE ConfigsWith(_, _, _)
\* the configurations of k vials of at most maxLen entries each, holding at
\* most units entries in total
ConfigsWith(k, units, maxLen) ==
  IF k = 0 THEN {<<>>}
  ELSE UNION {{<<v>> \o rest : rest \in ConfigsWith(k - 1, units - Len(v), maxLen)} :
                 v \in VialsUpTo(Min(units, maxLen))}

\* what solveSchema lets through: any array of arrays of colors
AnyConfigs ==
  UNION {ConfigsWith(k, MaxUnits, MAX_VIAL_CAPACITY + MaxOverfill) :
           k \in 0..MaxVials}

\* -------------------------------------------------------------------- state
VARIABLES
  budget,          \* MAX_SEARCH_STATES of each solver copy
  copy,            \* which solver copy './solver' resolves to
  initialVials,    \* gameState.vials of the request
  strictMode,      \* strictMode of the request
  pc,              \* "request", "loop", "done", "responded", "viewed"
  queue,           \* solvePuzzle: queue
  visited,         \* solvePuzzle: visited
  statesExplored,  \* solvePuzzle: statesExplored
  solution,        \* the solved node the search stopped at, if any
  result,          \* what solvePuzzle returned
  thrown,          \* solvePuzzle threw
  response,        \* what POST /solve answered
  vialStates,      \* SolutionViewer: vialStates
  out,             \* the value a directly called solver function returned
  hook,            \* useSolver: gameState, solution, isLoading, error, isStrictMode
  inflight,        \* the file reads and fetches that are under way
  viewer           \* SolutionViewer: currentStep, isAnimating, its timer and effects

vars == <<budget, copy, initialVials, strictMode, pc, queue, visited, statesExplored,
          solution, result, thrown, response, vialStates, out, hook, inflight, viewer>>

MAX_SEARCH_STATES(c) == budget[c]

Null == [isNull |-> TRUE, moves |-> <<>>]
List(moves) == [isNull |-> FALSE, moves |-> moves]
\* what the catch block of the handler finds when solvePuzzle threw
Thrown(message) == [isNull |-> TRUE, moves |-> <<>>, message |-> message]
NoMessage == "(no message)"
NoResponse == [status |-> 0, success |-> FALSE, moves |-> <<>>, message |-> NoMessage]
NoOut == [op |-> "none"]

\* null, as the value of gameState, solution and error
NoValue == [isNull |-> TRUE]

\* the useState initial values of useSolver({strictMode: true}); answered is
\* the request whose response solution holds
NoHook == [gameState |-> NoValue, solution |-> NoValue, isLoading |-> FALSE,
           error |-> NoValue, isStrictMode |-> TRUE, answered |-> NoValue]

\* SolutionViewer once mounted: the useState initial values, no timer set and
\* no effect due (resetDue, animationDue: the dependencies of the effect
\* changed in a render whose effects have not run yet)
NoViewer == [currentStep |-> 0, isAnimating |-> FALSE, animationTimer |-> FALSE,
             resetDue |-> FALSE, animationDue |-> FALSE]

Init ==
  /\ budget = ScaledBudget
  /\ hook = NoHook
  /\ inflight = EmptyBag
  /\ viewer = NoViewer
  /\ copy \in Copies
  /\ initialVials \in AnyConfigs
  /\ strictMode \in BOOLEAN
  /\ pc = "request"
  /\ queue = <<>>
  /\ visited = {}
  /\ statesExplored = 0
  /\ solution = NoState
  /\ result = Null
  /\ thrown = FALSE
  /\ response = NoResponse
  /\ vialStates = <<>>
  /\ out = NoOut

\* faulty variant of solvePuzzleEnter: visited is a module-level set that is
\* never emptied
solvePuzzleEnterShared ==
  /\ pc = "request"
  /\ LET initialState == GameState(initialVials, <<>>)
     IN IF isSolved(copy, initialState, strictMode)
        THEN /\ result' = List(<<>>)
             /\ pc' = "done"
             /\ UNCHANGED <<queue, visited>>
        ELSE /\ queue' = <<initialState>>
             /\ visited' = visited \cup {toString(initialState)}
             /\ pc' = "loop"
             /\ UNCHANGED result
  /\ statesExplored' = 0
  /\ UNCHANGED <<hook, inflight, viewer, budget, copy, initialVials, strictMode, solution,
                 thrown, response, vialStates, out>>

\* faulty variant of solvePuzzleEnter: no already-solved check before the search
solvePuzzleEnterNoCheck ==
  /\ pc = "request"
  /\ queue' = <<GameState(initialVials, <<>>)>>
  /\ visited' = {toString(GameState(initialVials, <<>>))}
  /\ pc' = "loop"
  /\ statesExplored' = 0
  /\ UNCHANGED <<hook, inflight, viewer, budget, copy, initialVials, strictMode, solution,
                 result, thrown, response, vialStates, out>>

\* solvePuzzle up to the loop: the already-solved check and the set-up of
\* queue and visited
solvePuzzleEnter ==
  /\ pc = "request"
  /\ LET initialState == GameState(initialVials, <<>>)
     IN IF isSolved(copy, initialState, strictMode)
        THEN /\ result' = List(<<>>)
             /\ pc' = "done"
             /\ UNCHANGED <<queue, visited>>
        ELSE /\ queue' = <<initialState>>
             /\ visited' = {toString(initialState)}
             /\ pc' = "loop"
             /\ UNCHANGED result
  /\ statesExplored' = 0
  /\ UNCHANGED <<hook, inflight, viewer, budget, copy, initialVials, strictMode, solution,
                 thrown, response, vialStates, out>>

\* faulty variant of solvePuzzleStep: statesExplored++ is missing
solvePuzzleStepUncounted ==
  /\ pc = "loop"
  /\ Len(queue) > 0
  /\ statesExplored < MAX_SEARCH_STATES(copy)
  /\ \E nextStates \in {generateNextStates(copy, Head(queue))} :
     \E scan \in {IF copy = "middleware"
                 THEN ScanM(nextStates, strictMode, visited, Tail(queue))
                 ELSE processState(nextStates, strictMode, visited, Tail(queue))} :
     LET enriched == enrichMoves(copy, scan.solution.moves, initialVials)
     IN /\ statesExplored' = statesExplored
        /\ IF \E k \in 1..Len(nextStates) : nextStates[k] = InvalidMove
           THEN /\ thrown' = TRUE
                /\ result' = Thrown(InvalidMove.error)
                /\ pc' = "done"
                /\ queue' = Tail(queue)
                /\ UNCHANGED <<visited, solution>>
           ELSE /\ queue' = scan.queue
                /\ visited' = scan.visited
                /\ solution' = scan.solution
                /\ IF scan.solution = NoState
                   THEN UNCHANGED <<pc, result, thrown>>
                   ELSE /\ pc' = "done"
                        /\ thrown' = enriched.thrown
                        /\ result' = IF enriched.thrown
                                     THEN Thrown("Invalid array length")
                                     ELSE List(enriched.moves)
  /\ UNCHANGED <<hook, inflight, viewer, budget, copy, initialVials, strictMode, response, vialStates, out>>

\* one iteration of the while loop of solvePuzzle
solvePuzzleStep ==
  /\ pc = "loop"
  /\ Len(queue) > 0
  /\ statesExplored < MAX_SEARCH_STATES(copy)
  /\ \E nextStates \in {generateNextStates(copy, Head(queue))} :
     \E scan \in {IF copy = "middleware"
                 THEN ScanM(nextStates, strictMode, visited, Tail(queue))
                 ELSE processState(nextStates, strictMode, visited, Tail(queue))} :
     LET enriched == enrichMoves(copy, scan.solution.moves, initialVials)
     IN /\ statesExplored' = statesExplored + 1
        /\ IF \E k \in 1..Len(nextStates) : nextStates[k] = InvalidMove
           THEN /\ thrown' = TRUE
                /\ result' = Thrown(InvalidMove.error)
                /\ pc' = "done"
                /\ queue' = Tail(queue)
                /\ UNCHANGED <<visited, solution>>
           ELSE /\ queue' = scan.queue
                /\ visited' = scan.visited
                /\ solution' = scan.solution
                /\ IF scan.solution = NoState
                   THEN UNCHANGED <<pc, result, thrown>>
                   ELSE /\ pc' = "done"
                        /\ thrown' = enriched.thrown
                        /\ result' = IF enriched.thrown
                                     THEN Thrown("Invalid array length")
                                     ELSE List(enriched.moves)
  /\ UNCHANGED <<hook, inflight, viewer, budget, copy, initialVials, strictMode, response, vialStates, out>>

\* the loop condition fails: solvePuzzle returns null
solvePuzzleGiveUp ==
  /\ pc = "loop"
  /\ ~(Len(queue) > 0 /\ statesExplored < MAX_SEARCH_STATES(copy))
  /\ result' = Null
  /\ pc' = "done"
  /\ UNCHANGED <<hook, inflight, viewer, budget, copy, initialVials, strictMode, queue, visited, statesExplored,
                 solution, thrown, response, vialStates, out>>

\* faulty variant of Falsy: the empty array taken for falsy
FalsyEmptyArray(value) == value.isNull \/ value.moves = <<>>

\* `!solution` in the handler: null is falsy, every array is truthy
Falsy(value) == value.isNull

\* the rest of the POST /solve handler, once solvePuzzle returned or threw
postSolve ==
  /\ pc = "done"
  /\ response' =
       IF thrown
       THEN [status |-> 500, success |-> FALSE, moves |-> <<>>,
             message |-> result.message]
       ELSE IF Falsy(result)
       THEN [status |-> 200, success |-> FALSE, moves |-> <<>>,
             message |-> "No solution found. The puzzle may be unsolvable or too complex."]
       ELSE [status |-> 200, success |-> TRUE, moves |-> result.moves,
             message |-> NoMessage]
  /\ pc' = "responded"
  /\ UNCHANGED <<hook, inflight, viewer, budget, copy, initialVials, strictMode, queue, visited, statesExplored,
                 solution, result, thrown, vialStates, out>>

RECURSIVE ReplayStates(_, _)
\* the for loop of generateVialStates: the states after each remaining move
ReplayStates(currentVials, moves) ==
  IF moves = <<>> THEN <<>>
  ELSE LET after == PourLoop(currentVials, Head(moves).from, Head(moves).to,
                             Head(moves).units)
       IN <<after>> \o ReplayStates(after, Tail(moves))

\* generateVialStates: the initial vials followed by the state after each move
generateVialStates(vials, moves) == <<vials>> \o ReplayStates(vials, moves)

\* SolutionViewer's effect on a new solution
viewSolution ==
  /\ pc = "responded"
  /\ vialStates' = IF response.success
                   THEN generateVialStates(initialVials, response.moves)
                   ELSE <<>>
  /\ pc' = "viewed"
  /\ UNCHANGED <<hook, inflight, viewer, budget, copy, initialVials, strictMode, queue, visited, statesExplored,
                 solution, result, thrown, response, out>>

Next ==
  \/ solvePuzzleEnter
  \/ solvePuzzleStep
  \/ solvePuzzleGiveUp
  \/ postSolve
  \/ viewSolution

Spec == Init /\ [][Next]_vars

\* ------------------------------------------------- POST /solve, fuller puzzles
\* MaxVials vials within capacity that hold up to DeepUnits color units,
\* searched with a budget that, like the real one, is never used up on them
InitDeep ==
  /\ budget = AmpleBudget
  /\ hook = NoHook
  /\ inflight = EmptyBag
  /\ viewer = NoViewer
  /\ copy \in Copies
  /\ initialVials \in ConfigsWith(MaxVials, DeepUnits, MAX_VIAL_CAPACITY)
  /\ strictMode \in BOOLEAN
  /\ pc = "request"
  /\ queue = <<>>
  /\ visited = {}
  /\ statesExplored = 0
  /\ solution = NoState
  /\ result = Null
  /\ thrown = FALSE
  /\ response = NoResponse
  /\ vialStates = <<>>
  /\ out = NoOut

SpecDeep == InitDeep /\ [][Next]_vars

\* ------------------------------------------- the solver functions on their own
InitCall ==
  /\ budget = ScaledBudget
  /\ hook = NoHook
  /\ inflight = EmptyBag
  /\ viewer = NoViewer
  /\ copy \in Copies
  /\ initialVials \in AnyConfigs
  /\ strictMode \in BOOLEAN
  /\ pc = "call"
  /\ queue = <<>>
  /\ visited = {}
  /\ statesExplored = 0
  /\ solution = NoState
  /\ result = Null
  /\ thrown = FALSE
  /\ response = NoResponse
  /\ vialStates = <<>>
  /\ out = NoOut

\* isSolved(new GameState(initialVials), strictMode)
callIsSolved ==
  /\ pc = "call"
  /\ out' = [op |-> "isSolved",
             value |-> isSolved(copy, GameState(initialVials, <<>>), strictMode)]
  /\ pc' = "returned"
  /\ UNCHANGED <<hook, inflight, viewer, budget, copy, initialVials, strictMode, queue, visited, statesExplored,
                 solution, result, thrown, response, vialStates>>

NextCall == callIsSolved

SpecCall == InitCall /\ [][NextCall]_vars

\* --------------------------------------------- the move functions on their own
InitMove ==
  /\ budget = ScaledBudget
  /\ hook = NoHook
  /\ inflight = EmptyBag
  /\ viewer = NoViewer
  /\ copy \in Copies
  /\ initialVials \in AnyConfigs
  /\ strictMode = TRUE
  /\ pc = "call"
  /\ queue = <<>>
  /\ visited = {}
  /\ statesExplored = 0
  /\ solution = NoState
  /\ result = Null
  /\ thrown = FALSE
  /\ response = NoResponse
  /\ vialStates = <<>>
  /\ out = NoOut

\* the move lists of the states executeMove is called on
PriorMoves == {<<>>, <<[from |-> 1, to |-> 0]>>}

\* getTopColorSequence(vial) for a vial of initialVials
callGetTopColorSequence ==
  /\ pc = "call"
  /\ \E i \in 1..Len(initialVials) :
        out' = [op |-> "getTopColorSequence", vial |-> initialVials[i],
                value |-> getTopColorSequence(copy, initialVials[i])]
  /\ pc' = "returned"
  /\ UNCHANGED <<hook, inflight, viewer, budget, copy, initialVials, strictMode, queue, visited,
                 statesExplored, solution, result, thrown, response, vialStates>>

\* isValidMove(new GameState(initialVials), from, to)
callIsValidMove ==
  /\ pc = "call"
  /\ \E from, to \in 0..(Len(initialVials) - 1) :
        out' = [op |-> "isValidMove", from |-> from, to |-> to,
                value |-> isValidMove(GameState(initialVials, <<>>), from, to)]
  /\ pc' = "returned"
  /\ UNCHANGED <<hook, inflight, viewer, budget, copy, initialVials, strictMode, queue, visited,
                 statesExplored, solution, result, thrown, response, vialStates>>

\* faulty variant of callExecuteMove: executeMove pours in the vials of the
\* state it was given
callExecuteMoveInPlace ==
  /\ pc = "call"
  /\ \E from, to \in 0..(Len(initialVials) - 1), moves \in PriorMoves :
        LET state == GameState(initialVials, moves)
            value == executeMove(copy, state, from, to)
        IN out' = [op |-> "executeMove", from |-> from, to |-> to,
                   given |-> state,
                   state |-> IF value = InvalidMove THEN state
                             ELSE GameState(value.vials, moves),
                   value |-> value]
  /\ pc' = "returned"
  /\ UNCHANGED <<hook, inflight, viewer, budget, copy, initialVials, strictMode, queue, visited,
                 statesExplored, solution, result, thrown, response, vialStates>>

\* executeMove(state, from, to) on a state of initialVials; out keeps the state
\* as it was given and as it is after the call (both copies build the new
\* state from copies of the vials and of the move list)
callExecuteMove ==
  /\ pc = "call"
  /\ \E from, to \in 0..(Len(initialVials) - 1), moves \in PriorMoves :
        LET state == GameState(initialVials, moves)
        IN out' = [op |-> "executeMove", from |-> from, to |-> to,
                   given |-> state, state |-> state,
                   value |-> executeMove(copy, state, from, to)]
  /\ pc' = "returned"
  /\ UNCHANGED <<hook, inflight, viewer, budget, copy, initialVials, strictMode, queue, visited,
                 statesExplored, solution, result, thrown, response, vialStates>>

\* enrichMoves([{from, to}], initialVials)
callEnrichMoves ==
  /\ pc = "call"
  /\ \E from, to \in 0..(Len(initialVials) - 1) :
        out' = [op |-> "enrichMoves", from |-> from, to |-> to,
                value |-> enrichMoves(copy, <<[from |-> from, to |-> to]>>,
                                      initialVials)]
  /\ pc' = "returned"
  /\ UNCHANGED <<hook, inflight, viewer, budget, copy, initialVials, strictMode, queue, visited,
                 statesExplored, solution, result, thrown, response, vialStates>>

NextMove ==
  \/ callGetTopColorSequence
  \/ callIsValidMove
  \/ callExecuteMove
  \/ callEnrichMoves

SpecMove == InitMove /\ [][NextMove]_vars

\* ------------------------------------------------- solvePuzzle called repeatedly
\* out keeps, for the calls that returned, what each was given and what it
\* returned, and the caller's array as it was when the running call was made
NoCalls(given) == [op |-> "solvePuzzle", calls |-> <<>>, given |-> given]

\* the arrays solvePuzzle is called on repeatedly
AgainConfigs(units) ==
  UNION {ConfigsWith(k, units, MAX_VIAL_CAPACITY + MaxOverfill) :
           k \in 0..MaxVials}

InitAgain ==
  /\ budget = ScaledBudget
  /\ hook = NoHook
  /\ inflight = EmptyBag
  /\ viewer = NoViewer
  /\ copy \in Copies
  /\ initialVials \in AgainConfigs(AgainUnits)
  /\ strictMode \in BOOLEAN
  /\ pc = "request"
  /\ queue = <<>>
  /\ visited = {}
  /\ statesExplored = 0
  /\ solution = NoState
  /\ result = Null
  /\ thrown = FALSE
  /\ response = NoResponse
  /\ vialStates = <<>>
  /\ out = NoCalls(initialVials)

\* solvePuzzle returned or threw and is called again on the same array, in
\* either mode.  The locals of the call that ended are garbage; the model
\* leaves them as they were.
callAgain ==
  /\ pc = "done"
  /\ Len(out.calls) + 1 < MaxCalls
  /\ \E vials \in {initialVials}, mode \in BOOLEAN :
        /\ initialVials' = vials
        /\ strictMode' = mode
        /\ out' = [out EXCEPT
                     !.calls = Append(@, [vials |-> initialVials,
                                          strictMode |-> strictMode,
                                          thrown |-> thrown,
                                          result |-> result]),
                     !.given = vials]
  /\ thrown' = FALSE
  /\ pc' = "request"
  /\ UNCHANGED <<hook, inflight, viewer, budget, copy, queue, visited, statesExplored, solution, result,
                 response, vialStates>>

NextAgain ==
  \/ solvePuzzleEnter
  \/ solvePuzzleStep
  \/ solvePuzzleGiveUp
  \/ callAgain

SpecAgain == InitAgain /\ [][NextAgain]_vars

\* ------------------------------------------- both copies on the same request
\* the imperative copy is called first, then the functional one on the same
\* vials and mode; neither budget is used up
InitBoth ==
  /\ budget = AmpleBudget
  /\ hook = NoHook
  /\ inflight = EmptyBag
  /\ viewer = NoViewer
  /\ copy = "middleware"
  /\ initialVials \in AnyConfigs
  /\ strictMode \in BOOLEAN
  /\ pc = "request"
  /\ queue = <<>>
  /\ visited = {}
  /\ statesExplored = 0
  /\ solution = NoState
  /\ result = Null
  /\ thrown = FALSE
  /\ response = NoResponse
  /\ vialStates = <<>>
  /\ out = NoCalls(initialVials)

\* solvePuzzle of the imperative copy returned: call the functional copy
callOtherCopy ==
  /\ pc = "done"
  /\ copy = "middleware"
  /\ copy' = "routes"
  /\ out' = [out EXCEPT
               !.calls = Append(@, [vials |-> initialVials,
                                    strictMode |-> strictMode,
                                    thrown |-> thrown,
                                    result |-> result])]
  /\ thrown' = FALSE
  /\ pc' = "request"
  /\ UNCHANGED <<hook, inflight, viewer, budget, initialVials, strictMode, queue, visited,
                 statesExplored, solution, result, response, vialStates>>

NextBoth ==
  \/ solvePuzzleEnter
  \/ solvePuzzleStep
  \/ solvePuzzleGiveUp
  \/ callOtherCopy

SpecBoth == InitBoth /\ [][NextBoth]_vars

\* ------------------------------------------------- keys of two configurations
\* colors as the schema admits them: any string, the empty one and the two
\* separators of toString among them
KeyColors == {"r", "", ",", "|"}

RECURSIVE KeyConfigsWith(_)
\* the configurations of k vials of at most KeyLen entries over KeyColors
KeyConfigsWith(k) ==
  IF k = 0 THEN {<<>>}
  ELSE {<<v>> \o rest : v \in UNION {[1..n -> KeyColors] : n \in 0..KeyLen},
                        rest \in KeyConfigsWith(k - 1)}

\* the configurations of at most n vials
KeyConfigs(n) == UNION {KeyConfigsWith(k) : k \in 0..n}

\* two states: one of initialVials, the other the only node of queue
InitKeys ==
  /\ budget = ScaledBudget
  /\ hook = NoHook
  /\ inflight = EmptyBag
  /\ viewer = NoViewer
  /\ copy \in Copies
  /\ initialVials \in KeyConfigs(KeyVials)
  /\ strictMode = TRUE
  /\ pc = "call"
  /\ queue \in {<<GameState(vials, <<>>)>> : vials \in KeyConfigs(KeyVials)}
  /\ visited = {}
  /\ statesExplored = 0
  /\ solution = NoState
  /\ result = Null
  /\ thrown = FALSE
  /\ response = NoResponse
  /\ vialStates = <<>>
  /\ out = NoOut

\* new GameState(initialVials).toString() and the node's toString()
callToString ==
  /\ pc = "call"
  /\ out' = [op |-> "toString",
             value |-> <<toString(GameState(initialVials, <<>>)),
                         toString(Head(queue))>>]
  /\ pc' = "returned"
  /\ UNCHANGED <<hook, inflight, viewer, budget, copy, initialVials, strictMode, queue, visited, statesExplored,
                 solution, result, thrown, response, vialStates>>

NextKeys == callToString

SpecKeys == InitKeys /\ [][NextKeys]_vars

\* ------------------------------------------------------------------ the client
\* The page of SolverPage: the useSolver hook, the editor and uploader that
\* call it and the SolutionViewer that shows its solution.  The server is the
\* solver copy `copy`; time is left out, a timer that is set may fire at any
\* moment until it is cleared.
EditorStates ==
  { <<<<"r">>, <<"b">>, <<>>>>,
    <<<<"r", "b">>, <<"b", "r">>, <<>>>>,
    <<<<"b">>, <<"b", "b", "b", "b">>, <<>>>> }

RECURSIVE WhileLoop(_, _, _, _, _, _)
\* the while loop of solvePuzzle, run to its end
WhileLoop(c, vials, mode, q, seen, explored) ==
  IF ~(Len(q) > 0 /\ explored < MAX_SEARCH_STATES(c)) THEN Null
  ELSE
    LET nextStates == generateNextStates(c, Head(q))
        scan == IF c = "middleware"
                THEN ScanM(nextStates, mode, seen, Tail(q))
                ELSE processState(nextStates, mode, seen, Tail(q))
        enriched == enrichMoves(c, scan.solution.moves, vials)
    IN IF \E k \in 1..Len(nextStates) : nextStates[k] = InvalidMove
       THEN Thrown(InvalidMove.error)
       ELSE IF scan.solution = NoState
       THEN WhileLoop(c, vials, mode, scan.queue, scan.visited, explored + 1)
       ELSE IF enriched.thrown THEN Thrown("Invalid array length")
       ELSE List(enriched.moves)

\* solvePuzzle as a function of its arguments
solvePuzzle(c, vials, mode) ==
  IF isSolved(c, GameState(vials, <<>>), mode) THEN List(<<>>)
  ELSE WhileLoop(c, vials, mode, <<GameState(vials, <<>>)>>,
                 {toString(GameState(vials, <<>>))}, 0)

SolverResult(success, moves, message) ==
  [isNull |-> FALSE, success |-> success, moves |-> moves, message |-> message]

\* the body POST /solve answers with
solveRoute(c, vials, mode) ==
  \* the one value of solvePuzzle, named once
  LET answer(sol) ==
        IF "message" \in DOMAIN sol
        THEN SolverResult(FALSE, <<>>, sol.message)
        ELSE IF Falsy(sol)
        THEN SolverResult(FALSE, <<>>,
               "No solution found. The puzzle may be unsolvable or too complex.")
        ELSE SolverResult(TRUE, sol.moves, NoMessage)
  IN answer(solvePuzzle(c, vials, mode))

SomeGameState(vials) == [isNull |-> FALSE, vials |-> vials]
SomeError(message) == [isNull |-> FALSE, message |-> message]

\* what SolutionViewer renders the solution from: neither of its early
\* returns is taken
Displayed ==
  /\ ~hook.gameState.isNull
  /\ ~hook.isLoading
  /\ ~hook.solution.isNull
  /\ hook.solution.success /\ Len(vialStates) # 0

\* the effects of SolutionViewer that are due, run once after a render: the
\* cleanup and the body of the animation effect see the values of that
\* render, the state the reset effect sets is rendered next
runEffects(v, states, h) ==
  LET arm  == v.animationDue /\ v.isAnimating /\ v.currentStep < Len(states) - 1
      stop == v.animationDue /\ v.isAnimating /\ v.currentStep >= Len(states) - 1
  IN [viewer |->
        [currentStep    |-> IF v.resetDue THEN 0 ELSE v.currentStep,
         isAnimating    |-> IF v.resetDue \/ stop THEN FALSE ELSE v.isAnimating,
         animationTimer |-> IF v.animationDue THEN arm ELSE v.animationTimer,
         resetDue       |-> FALSE,
         animationDue   |-> v.resetDue \/ stop],
      vialStates |->
        IF ~v.resetDue THEN states
        ELSE IF ~h.gameState.isNull /\ ~h.solution.isNull /\ h.solution.success
        THEN generateVialStates(h.gameState.vials, h.solution.moves)
        ELSE <<>>]

RECURSIVE flushEffects(_, _, _)
\* the effects run, and run again for the renders they cause, until none is due
flushEffects(v, states, h) ==
  IF ~(v.resetDue \/ v.animationDue) THEN [viewer |-> v, vialStates |-> states]
  ELSE LET after == runEffects(v, states, h)
       IN flushEffects(after.viewer, after.vialStates, h)

\* a click is a discrete event: its render and the effects of that render,
\* with the renders those cause, are over before the click returns
AfterClick(v, h) ==
  /\ hook' = h
  /\ \E after \in {flushEffects(v, vialStates, h)} :
        viewer' = after.viewer /\ vialStates' = after.vialStates

InitClient ==
  /\ budget = AmpleBudget
  /\ hook = NoHook
  /\ inflight = EmptyBag
  /\ viewer = NoViewer
  /\ copy \in Copies
  /\ initialVials = <<>>
  /\ strictMode = TRUE
  /\ pc = "client"
  /\ queue = <<>>
  /\ visited = {}
  /\ statesExplored = 0
  /\ solution = NoState
  /\ result = Null
  /\ thrown = FALSE
  /\ response = NoResponse
  /\ vialStates = <<>>
  /\ out = NoOut

\* GameStateEditor calls onChange: updateGameState(newState)
updateGameState ==
  /\ pc = "client"
  /\ \E newState \in EditorStates :
        AfterClick([viewer EXCEPT !.resetDue = TRUE],
                   [hook EXCEPT !.gameState = SomeGameState(newState),
                                !.solution = NoValue, !.answered = NoValue])
  /\ UNCHANGED <<inflight, budget, copy, initialVials, strictMode, pc, queue, visited,
                 statesExplored, solution, result, thrown, response, out>>

\* the checkbox: toggleStrictMode() and reset()
handleStrictModeChange ==
  /\ pc = "client"
  /\ AfterClick([viewer EXCEPT !.resetDue =
                    @ \/ ~hook.gameState.isNull \/ ~hook.solution.isNull],
                [hook EXCEPT !.isStrictMode = ~@, !.gameState = NoValue,
                             !.solution = NoValue, !.answered = NoValue,
                             !.error = NoValue])
  /\ UNCHANGED <<inflight, budget, copy, initialVials, strictMode, pc, queue, visited,
                 statesExplored, solution, result, thrown, response, out>>

\* the Solve button (disabled while isLoading): handleSolve and solvePuzzle
\* up to its fetch
handleSolve ==
  /\ pc = "client"
  /\ ~hook.isLoading
  /\ ~hook.gameState.isNull
  /\ BagCardinality(inflight) < MaxInflight
  /\ hook' = [hook EXCEPT !.isLoading = TRUE, !.error = NoValue]
  /\ inflight' = inflight (+) SetToBag({[kind |-> "solve", state |-> hook.gameState,
                                           strictMode |-> hook.isStrictMode]})
  /\ UNCHANGED <<viewer, vialStates, budget, copy, initialVials, strictMode, pc, queue,
                 visited, statesExplored, solution, result, thrown, response, out>>

\* the response to a solve request arrived: solvePuzzle from response.json()
\* to the end of finally
solveResponded ==
  /\ pc = "client"
  /\ \E request \in BagToSet(inflight) :
        /\ request.kind = "solve"
        /\ \E answer \in {solveRoute(copy, request.state.vials, request.strictMode)} :
              hook' = [hook EXCEPT
                         !.solution = answer,
                         !.answered = [gameState |-> request.state,
                                       strictMode |-> request.strictMode],
                         !.error = IF answer.success THEN @
                                   ELSE SomeError(answer.message),
                         !.isLoading = FALSE]
        /\ inflight' = inflight (-) SetToBag({request})
  /\ viewer' = [viewer EXCEPT !.resetDue = TRUE]
  /\ UNCHANGED <<vialStates, budget, copy, initialVials, strictMode, pc, queue,
                 visited, statesExplored, solution, result, thrown, response, out>>

\* the fetch of a solve request was rejected: catch and finally of solvePuzzle
solveFailed ==
  /\ pc = "client"
  /\ \E request \in BagToSet(inflight) :
        /\ request.kind = "solve"
        /\ inflight' = inflight (-) SetToBag({request})
  /\ hook' = [hook EXCEPT !.error = SomeError("Failed to fetch"),
                          !.solution = NoValue, !.answered = NoValue,
                          !.isLoading = FALSE]
  /\ viewer' = [viewer EXCEPT !.resetDue = @ \/ ~hook.solution.isNull]
  /\ UNCHANGED <<vialStates, budget, copy, initialVials, strictMode, pc, queue,
                 visited, statesExplored, solution, result, thrown, response, out>>

\* a file is chosen or dropped (not possible while isLoading): handleFile
\* starts to read it
handleFile ==
  /\ pc = "client"
  /\ ~hook.isLoading
  /\ BagCardinality(inflight) < MaxInflight
  /\ inflight' = inflight (+) SetToBag({[kind |-> "read"]})
  /\ UNCHANGED <<hook, viewer, vialStates, budget, copy, initialVials, strictMode, pc,
                 queue, visited, statesExplored, solution, result, thrown, response, out>>

\* reader.onload: onImageUpload, analyzeImage up to its fetch
analyzeImage ==
  /\ pc = "client"
  /\ [kind |-> "read"] \in BagToSet(inflight)
  /\ inflight' = (inflight (-) SetToBag({[kind |-> "read"]}))
                    (+) SetToBag({[kind |-> "analyze"]})
  /\ hook' = [hook EXCEPT !.isLoading = TRUE, !.error = NoValue]
  /\ UNCHANGED <<viewer, vialStates, budget, copy, initialVials, strictMode, pc, queue,
                 visited, statesExplored, solution, result, thrown, response, out>>

\* the response to an analyze request arrived with a game state
analyzeResponded ==
  /\ pc = "client"
  /\ [kind |-> "analyze"] \in BagToSet(inflight)
  /\ inflight' = inflight (-) SetToBag({[kind |-> "analyze"]})
  /\ \E newState \in EditorStates :
        hook' = [hook EXCEPT !.gameState = SomeGameState(newState),
                             !.isLoading = FALSE]
  /\ viewer' = [viewer EXCEPT !.resetDue = TRUE]
  /\ UNCHANGED <<vialStates, budget, copy, initialVials, strictMode, pc, queue,
                 visited, statesExplored, solution, result, thrown, response, out>>

\* the response to an analyze request said success: false, or the fetch was
\* rejected
analyzeFailed ==
  /\ pc = "client"
  /\ [kind |-> "analyze"] \in BagToSet(inflight)
  /\ inflight' = inflight (-) SetToBag({[kind |-> "analyze"]})
  /\ hook' = [hook EXCEPT !.error = SomeError("Failed to analyze image"),
                          !.isLoading = FALSE]
  /\ UNCHANGED <<viewer, vialStates, budget, copy, initialVials, strictMode, pc, queue,
                 visited, statesExplored, solution, result, thrown, response, out>>

\* the play/pause button
handlePlayPause ==
  /\ pc = "client" /\ Displayed
  /\ AfterClick([viewer EXCEPT !.isAnimating = ~@, !.animationDue = TRUE], hook)
  /\ UNCHANGED <<inflight, budget, copy, initialVials, strictMode, pc, queue, visited,
                 statesExplored, solution, result, thrown, response, out>>

\* the step-back button
handleStepBack ==
  /\ pc = "client" /\ Displayed
  /\ IF viewer.currentStep > 0
     THEN AfterClick([viewer EXCEPT !.currentStep = @ - 1, !.isAnimating = FALSE,
                                    !.animationDue = TRUE], hook)
     ELSE UNCHANGED <<hook, viewer, vialStates>>
  /\ UNCHANGED <<inflight, budget, copy, initialVials, strictMode, pc, queue, visited,
                 statesExplored, solution, result, thrown, response, out>>

\* the step-forward button
handleStepForward ==
  /\ pc = "client" /\ Displayed
  /\ IF viewer.currentStep < Len(vialStates) - 1
     THEN AfterClick([viewer EXCEPT !.currentStep = @ + 1, !.isAnimating = FALSE,
                                    !.animationDue = TRUE], hook)
     ELSE UNCHANGED <<hook, viewer, vialStates>>
  /\ UNCHANGED <<inflight, budget, copy, initialVials, strictMode, pc, queue, visited,
                 statesExplored, solution, result, thrown, response, out>>

\* the reset button
handleReset ==
  /\ pc = "client" /\ Displayed
  /\ AfterClick([viewer EXCEPT !.currentStep = 0, !.isAnimating = FALSE,
                               !.animationDue = @ \/ viewer.currentStep # 0
                                                  \/ viewer.isAnimating], hook)
  /\ UNCHANGED <<inflight, budget, copy, initialVials, strictMode, pc, queue, visited,
                 statesExplored, solution, result, thrown, response, out>>

\* the callback as it would be with an updater that skips a state
animationTimerSkips ==
  /\ pc = "client"
  /\ viewer.animationTimer
  /\ viewer' = [viewer EXCEPT !.currentStep = @ + 2, !.animationTimer = FALSE,
                              !.animationDue = TRUE]
  /\ UNCHANGED <<hook, inflight, vialStates, budget, copy, initialVials, strictMode,
                 pc, queue, visited, statesExplored, solution, result, thrown,
                 response, out>>

\* the callback of setTimeout: setCurrentStep(prev => prev + 1)
animationTimer ==
  /\ pc = "client"
  /\ viewer.animationTimer
  /\ viewer' = [viewer EXCEPT !.currentStep = @ + 1, !.animationTimer = FALSE,
                              !.animationDue = TRUE]
  /\ UNCHANGED <<hook, inflight, vialStates, budget, copy, initialVials, strictMode,
                 pc, queue, visited, statesExplored, solution, result, thrown,
                 response, out>>

\* the effects that are due run, some time after the render
useEffect ==
  /\ pc = "client"
  /\ viewer.resetDue \/ viewer.animationDue
  /\ \E after \in {runEffects(viewer, vialStates, hook)} :
        viewer' = after.viewer /\ vialStates' = after.vialStates
  /\ UNCHANGED <<hook, inflight, budget, copy, initialVials, strictMode, pc, queue,
                 visited, statesExplored, solution, result, thrown, response, out>>

\* the page as the hook sees it: the editor, the checkbox, the Solve button
\* and the uploader, with the viewer left alone
NextHook ==
  \/ updateGameState
  \/ handleStrictModeChange
  \/ handleSolve
  \/ solveResponded
  \/ solveFailed
  \/ handleFile
  \/ analyzeImage
  \/ analyzeResponded
  \/ analyzeFailed
  \/ useEffect

SpecHook == InitClient /\ [][NextHook]_vars

\* the page with puzzles that are typed into the editor, never uploaded
NextViewer ==
  \/ updateGameState
  \/ handleStrictModeChange
  \/ handleSolve
  \/ solveResponded
  \/ solveFailed
  \/ handlePlayPause
  \/ handleStepBack
  \/ handleStepForward
  \/ handleReset
  \/ animationTimer
  \/ useEffect

SpecViewer == InitClient /\ [][NextViewer]_vars

\* a timer that is set fires unless it is cleared, and effects that are due run
SpecViewerFair == SpecViewer /\ WF_vars(animationTimer) /\ WF_vars(useEffect)

\* ============================================================== properties
\* The pour rule as specified, stated without the code's helpers: the run is
\* the longest block of equal colors at the top of the source.
Returned == pc \in {"done", "responded", "viewed"} /\ ~thrown
ReturnedList == Returned /\ ~result.isNull

RunLength(vial) ==
  IF vial = <<>> THEN 0
  ELSE CHOOSE n \in 1..Len(vial) :
         /\ \A k \in (Len(vial) - n + 1)..Len(vial) : vial[k] = vial[Len(vial)]
         /\ (n = Len(vial) \/ vial[Len(vial) - n] # vial[Len(vial)])

SpecPour(vials, from, to) ==
  LET src   == vials[from + 1]
      dst   == vials[to + 1]
      units == Min(RunLength(src), MAX_VIAL_CAPACITY - Len(dst))
  IN [vials EXCEPT
        ![from + 1] = SubSeq(src, 1, Len(src) - units),
        ![to + 1]   = dst \o [k \in 1..units |-> src[Len(src)]]]

RECURSIVE SpecReplay(_, _)
\* replaying (from, to) pairs under the specified rule: the final vials, and
\* whether every move was valid where it was made
SpecReplay(vials, moves) ==
  IF moves = <<>> THEN [ok |-> TRUE, vials |-> vials]
  ELSE IF ~isValidMove(GameState(vials, <<>>), Head(moves).from, Head(moves).to)
  THEN [ok |-> FALSE, vials |-> vials]
  ELSE SpecReplay(SpecPour(vials, Head(moves).from, Head(moves).to), Tail(moves))

SoundAnswer ==
  LET replay == SpecReplay(initialVials, result.moves)
  IN /\ replay.ok
     /\ isSolved(copy, GameState(replay.vials, <<>>), strictMode)

\* every vial of the initial configuration holds at most 4 colors
WithinCapacity ==
  \A i \in 1..Len(initialVials) : Len(initialVials[i]) <= MAX_VIAL_CAPACITY

\* C1: for an initial configuration within capacity, a returned move list
\* replays, under the specified pour rule, through valid moves only and ends
\* in a configuration solved for the requested mode (either solver copy).
C1_Soundness == (WithinCapacity /\ ReturnedList) => SoundAnswer

\* the same for the imperative copy alone
C1_SoundnessMiddleware == copy = "middleware" => C1_Soundness
\* the configurations one valid pour away from a configuration of S
SpecSuccessors(S) ==
  UNION {{SpecPour(v, f, t) :
            <<f, t>> \in {q \in (0..(Len(v) - 1)) \X (0..(Len(v) - 1)) :
                            isValidMove(GameState(v, <<>>), q[1], q[2])}} :
         v \in S}

RECURSIVE SolvedWithin(_, _, _, _)
\* some sequence of at most k valid pours leads from a configuration of S to
\* a configuration solved for the mode
SolvedWithin(S, k, c, mode) ==
  IF k < 0 \/ S = {} THEN FALSE
  ELSE IF \E v \in S : isSolved(c, GameState(v, <<>>), mode) THEN TRUE
  ELSE SolvedWithin(SpecSuccessors(S), k - 1, c, mode)

ShortestAnswer ==
  ~SolvedWithin({initialVials}, Len(result.moves) - 1, copy, strictMode)

\* C2: for an initial configuration within capacity, no sequence of valid
\* pours that solves it is shorter than a returned move list (either solver
\* copy).
C2_Shortest == (WithinCapacity /\ ReturnedList) => ShortestAnswer

\* the same for the imperative copy alone
C2_ShortestMiddleware == copy = "middleware" => C2_Shortest

\* C2 witness: the imperative copy returned a list of two or more moves
C2_Witness ==
  pc = "done" /\ ~thrown /\ ~result.isNull /\ copy = "middleware"
    /\ WithinCapacity /\ Len(result.moves) >= 2
RECURSIVE ReachFrom(_, _)
\* closure of seen under valid pours, frontier being its newest members
ReachFrom(frontier, seen) ==
  IF frontier = {} THEN seen
  ELSE LET new == SpecSuccessors(frontier) \ seen
       IN ReachFrom(new, seen \cup new)

\* the configurations reachable from v by valid pours
Reachable(v) == ReachFrom({v}, {v})

Solvable == \E v \in Reachable(initialVials) :
               isSolved(copy, GameState(v, <<>>), strictMode)

RECURSIVE ReachCapped(_, _, _)
\* ReachFrom, given up once cap configurations are known
ReachCapped(frontier, seen, cap) ==
  IF frontier = {} \/ Cardinality(seen) >= cap THEN seen
  ELSE LET new == SpecSuccessors(frontier) \ seen
       IN ReachCapped(new, seen \cup new, cap)

\* fewer than MAX_SEARCH_STATES configurations are reachable by valid pours
\* and one of them is solved
SolvableInBudget ==
  LET reach == ReachCapped({initialVials}, {initialVials}, MAX_SEARCH_STATES(copy))
  IN /\ Cardinality(reach) < MAX_SEARCH_STATES(copy)
     /\ \E v \in reach : isSolved(copy, GameState(v, <<>>), strictMode)

\* C3: null is returned only with the frontier exhausted or the budget used
\* up; when a solved configuration is reachable by valid pours and fewer than
\* MAX_SEARCH_STATES configurations are reachable, a move list is returned.
C3_Completeness ==
  (pc = "done" /\ ~thrown /\ result.isNull) =>
    /\ queue = <<>> \/ statesExplored >= MAX_SEARCH_STATES(copy)
    /\ ~SolvableInBudget

\* the same for the imperative copy alone
C3_CompletenessMiddleware == copy = "middleware" => C3_Completeness

\* C3 witness: the imperative copy found, at its second dequeue or later, the
\* solved configuration of a puzzle with fewer reachable configurations than the
\* budget
C3_Witness ==
  /\ pc = "done" /\ ~thrown /\ ~result.isNull
  /\ copy = "middleware" /\ statesExplored >= 2
  /\ SolvableInBudget

\* C4: the search never dequeues more than MAX_SEARCH_STATES nodes, and an
\* initial configuration from which no solved configuration is reachable by
\* valid pours gets null, not a move list (either solver copy).
C4_Termination ==
  /\ statesExplored <= MAX_SEARCH_STATES(copy)
  /\ (Returned /\ ~Solvable) => result.isNull

\* the same for the imperative copy alone
C4_TerminationMiddleware == copy = "middleware" => C4_Termination
\* every node the search holds: the queue and the solved node it stopped at
SearchNodes ==
  {queue[k] : k \in 1..Len(queue)} \cup (IF solution = NoState THEN {} ELSE {solution})

\* occurrences of a color over all vials of a configuration
ColorTotal(vials, col) ==
  Cardinality({<<i, k>> \in UNION {{<<j, n>> : n \in 1..Len(vials[j])} :
                                      j \in 1..Len(vials)} :
                 vials[i][k] = col})

\* C5: every configuration the search produces holds each color as often as
\* the initial configuration does (either solver copy).
C5_ColorConservation ==
  \A node \in SearchNodes : \A col \in Colors \cup {"undefined"} :
     ColorTotal(node.vials, col) = ColorTotal(initialVials, col)

\* the same for the imperative copy alone
C5_ColorConservationMiddleware == copy = "middleware" => C5_ColorConservation

\* C6: with every initial vial within capacity, every vial of every
\* configuration the search produces has between 0 and 4 entries, and the
\* number of vials is the initial one.
C6_Capacity ==
  WithinCapacity =>
    \A node \in SearchNodes :
       /\ Len(node.vials) = Len(initialVials)
       /\ \A i \in 1..Len(node.vials) :
             Len(node.vials[i]) >= 0 /\ Len(node.vials[i]) <= MAX_VIAL_CAPACITY

\* C6 witness: a queued configuration in which a pour filled a vial to
\* capacity while part of the poured run stayed behind in the source
C6_Witness ==
  \E node \in SearchNodes :
     /\ WithinCapacity
     /\ node.moves # <<>>
     /\ LET m == node.moves[Len(node.moves)]
        IN /\ Len(node.vials[m.to + 1]) = MAX_VIAL_CAPACITY
           /\ Len(node.vials[m.from + 1]) > 0
           /\ node.vials[m.from + 1][Len(node.vials[m.from + 1])]
                = node.vials[m.to + 1][MAX_VIAL_CAPACITY]
Responded == pc \in {"responded", "viewed"}
InitiallySolved == isSolved(copy, GameState(initialVials, <<>>), strictMode)

\* C7: for an initial configuration that is already solved for the requested
\* mode, solvePuzzle returns the empty list without dequeuing, queueing or
\* marking anything, and POST /solve answers 200, success, no moves.
C7_AlreadySolved ==
  (InitiallySolved /\ pc # "request") =>
    /\ pc # "loop"
    /\ result = List(<<>>)
    /\ statesExplored = 0 /\ queue = <<>> /\ visited = {}
    /\ Responded =>
         response = [status |-> 200, success |-> TRUE, moves |-> <<>>,
                     message |-> NoMessage]

\* C7 witness: the answer to [[r,r],[r,r]] in loose mode
C7_Witness ==
  /\ Responded /\ ~strictMode
  /\ initialVials = <<<<"r", "r">>, <<"r", "r">>>>
  /\ response.success /\ response.moves = <<>>

NoSolutionResponse ==
  [status |-> 200, success |-> FALSE, moves |-> <<>>,
   message |-> "No solution found. The puzzle may be unsolvable or too complex."]

\* C8: POST /solve answers 200 with success = false, no moves and a message
\* exactly when solvePuzzle returned null, 200 with success = true and the
\* annotated moves when it returned a list, and 500 only when it threw.
C8_NegativeOutcome ==
  Responded =>
    /\ (response.status = 200 /\ ~response.success) <=> (~thrown /\ result.isNull)
    /\ (~thrown /\ result.isNull) => response = NoSolutionResponse
    /\ (~thrown /\ ~result.isNull) =>
         response = [status |-> 200, success |-> TRUE, moves |-> result.moves,
                     message |-> NoMessage]
    /\ response.status = 500 => thrown
    /\ response.status \in {200, 500}

\* C8 witness: the answer to a search that gave up on its budget
C8_Witness ==
  /\ Responded /\ result.isNull /\ queue # <<>>
  /\ response = NoSolutionResponse

\* the configuration the search stopped at
FinalVials == IF solution = NoState THEN initialVials ELSE solution.vials

\* the top n entries of a vial
TopEntries(vial, n) == {vial[k] : k \in Max(1, Len(vial) - n + 1)..Len(vial)}

\* C10: replaying the annotated moves by moving `units` entries from the top
\* of `from` onto `to` reproduces the configuration the search reached; every
\* entry moved has the move's color and units >= 1 (either solver copy).
C10_Annotator ==
  (pc = "viewed" /\ response.success) =>
    /\ Len(vialStates) = Len(response.moves) + 1
    /\ vialStates[Len(vialStates)] = FinalVials
    /\ \A i \in 1..Len(response.moves) :
         LET move == response.moves[i]
         IN /\ move.units >= 1
            /\ Len(vialStates[i][move.from + 1]) >= move.units
            /\ TopEntries(vialStates[i][move.from + 1], move.units) = {move.color}

\* the same for the imperative copy alone
C10_AnnotatorMiddleware == copy = "middleware" => C10_Annotator
\* the (vial, position) pairs of a configuration
Entries(vials) ==
  UNION {{<<i, k>> : k \in 1..Len(vials[i])} : i \in 1..Len(vials)}

\* the vials that hold a color
Holders(vials, col) ==
  {i \in 1..Len(vials) : \E k \in 1..Len(vials[i]) : vials[i][k] = col}

\* the goal as specified: loose
LooseGoal(vials) ==
  \A i \in 1..Len(vials) : Cardinality({vials[i][k] : k \in 1..Len(vials[i])}) <= 1

\* the goal as specified: strict
StrictGoal(vials) ==
  /\ LooseGoal(vials)
  /\ \A col \in Colors :
       Holders(vials, col) # {} =>
         /\ Cardinality(Holders(vials, col)) = 1
         /\ \A i \in Holders(vials, col) :
              Len(vials[i]) =
                Min(Cardinality({e \in Entries(vials) : vials[e[1]][e[2]] = col}),
                    MAX_VIAL_CAPACITY)

EndedCalls ==
  out.calls \o (IF pc = "done"
                THEN <<[vials |-> initialVials, strictMode |-> strictMode,
                        thrown |-> thrown, result |-> result]>>
                ELSE <<>>)

\* C11: two calls of solvePuzzle with equal vials and mode return equal
\* results (or both throw), whatever was called before or between them; the
\* caller's vials are what they were when the call was made.
C11_Deterministic ==
  out.op = "solvePuzzle" =>
    /\ initialVials = out.given
    /\ \A i, j \in 1..Len(EndedCalls) :
          (EndedCalls[i].vials = EndedCalls[j].vials
             /\ EndedCalls[i].strictMode = EndedCalls[j].strictMode)
          => EndedCalls[i] = EndedCalls[j]

\* C11 witness: the third call repeats the first, which returned two moves or
\* more, after a call in the other mode
C11_Witness ==
  /\ out.op = "solvePuzzle" /\ pc = "done" /\ Len(out.calls) = 2
  /\ out.calls[1].vials = initialVials /\ out.calls[1].strictMode = strictMode
  /\ out.calls[2].strictMode # strictMode
  /\ ~out.calls[1].result.isNull /\ Len(out.calls[1].result.moves) >= 2
  /\ result = out.calls[1].result

\* the (from, to) pairs of a configuration
Pairs(vials) == (0..(Len(vials) - 1)) \X (0..(Len(vials) - 1))

\* C12: on any array of arrays the successors of the node about to be
\* expanded come from valid moves only, executeMove never throws
\* "Invalid move", and POST /solve never answers 500 with that message
\* (either solver copy).
C12_NoInvalidMove ==
  /\ (pc = "loop" /\ queue # <<>>) =>
        \E nextStates \in {generateNextStates(copy, Head(queue))} :
           \A k \in 1..Len(nextStates) :
              /\ nextStates[k] # InvalidMove
              /\ isValidMove(Head(queue),
                             nextStates[k].moves[Len(nextStates[k].moves)].from,
                             nextStates[k].moves[Len(nextStates[k].moves)].to)
  /\ thrown => result.message # InvalidMove.error
  /\ response.status = 500 => response.message # InvalidMove.error

\* C12 witness: a node, not the initial one, of a puzzle with a vial over
\* capacity is about to be expanded; some of its pairs are valid moves and
\* some pairs of different vials are not
C12_Witness ==
  /\ pc = "loop" /\ queue # <<>> /\ statesExplored >= 1 /\ ~WithinCapacity
  /\ \E q \in Pairs(initialVials) : isValidMove(Head(queue), q[1], q[2])
  /\ \E q \in Pairs(initialVials) :
        q[1] # q[2] /\ ~isValidMove(Head(queue), q[1], q[2])

\* C13: whatever configuration solvePuzzle is run on through POST /solve has
\* every vial of length <= 4; a request with a longer vial never gets as far
\* as the solver.
C13_BoundaryCapacity == pc # "request" => WithinCapacity

\* C14: two configurations over arbitrary strings have equal toString keys
\* iff they have the same vials in the same order.
C14_KeyInjective ==
  (pc = "returned" /\ out.op = "toString") =>
     ((out.value[1] = out.value[2]) <=> (initialVials = Head(queue).vials))

\* C15: the annotated list solvePuzzle returns has the length of the raw path
\* of the node the search stopped at, and its i-th element has the from and
\* to of the i-th raw move (either solver copy).
C15_AnnotatorKeepsMoves ==
  (ReturnedList /\ solution # NoState) =>
    /\ Len(result.moves) = Len(solution.moves)
    /\ \A i \in 1..Len(result.moves) :
         i <= Len(solution.moves) =>
           /\ result.moves[i].from = solution.moves[i].from
           /\ result.moves[i].to = solution.moves[i].to

\* the same for the imperative copy alone
C15_AnnotatorKeepsMovesMiddleware == copy = "middleware" => C15_AnnotatorKeepsMoves

\* executeMove was called directly with a valid move
PouredDirectly ==
  /\ pc = "returned" /\ out.op = "executeMove"
  /\ isValidMove(out.given, out.from, out.to)

\* C16: for a valid (from, to), executeMove (either copy) returns a
\* configuration in which the source has lost exactly its top `units` entries
\* and the destination has gained exactly `units` entries of the top color,
\* units = min(top run of the source, 4 - length(dest)).
C16_PourTransfer ==
  PouredDirectly =>
    LET poured == SpecPour(out.given.vials, out.from, out.to)
    IN /\ out.value # InvalidMove
       /\ out.value.vials[out.from + 1] = poured[out.from + 1]
       /\ out.value.vials[out.to + 1] = poured[out.to + 1]

\* the same for the imperative copy alone
C16_PourTransferMiddleware == copy = "middleware" => C16_PourTransfer

\* C17: getTopColorSequence (either copy) returns null for an empty vial and
\* otherwise the top color with the length of the contiguous run of that
\* color at the top; the count inside enrichMoves is that run length too, so
\* the units of a single annotated move are min(run, 4 - length(dest)).
C17_TopRun ==
  /\ (pc = "returned" /\ out.op = "getTopColorSequence") =>
        IF out.vial = <<>> THEN out.value.isNull
        ELSE /\ ~out.value.isNull
             /\ out.value.color = out.vial[Len(out.vial)]
             /\ out.value.count = RunLength(out.vial)
  /\ (pc = "returned" /\ out.op = "enrichMoves" /\ ~out.value.thrown
         /\ initialVials[out.from + 1] # <<>>) =>
        /\ Len(out.value.moves) = 1
        /\ out.value.moves[1].color =
             initialVials[out.from + 1][Len(initialVials[out.from + 1])]
        /\ out.value.moves[1].units =
             Min(RunLength(initialVials[out.from + 1]),
                 MAX_VIAL_CAPACITY - Len(initialVials[out.to + 1]))

\* the same for the imperative copy alone
C17_TopRunMiddleware == copy = "middleware" => C17_TopRun

C20_PourFrame ==
  (pc = "returned" /\ out.op = "executeMove") =>
    /\ out.state = out.given
    /\ out.value # InvalidMove =>
         /\ Len(out.value.vials) = Len(out.given.vials)
         /\ \A i \in 1..Len(out.given.vials) :
               (i # out.from + 1 /\ i # out.to + 1) =>
                  out.value.vials[i] = out.given.vials[i]
         /\ out.value.moves =
               out.given.moves \o <<[from |-> out.from, to |-> out.to]>>

\* C20 witness: a pour between two of three vials, the third one not empty,
\* on a state that already had a move
C20_Witness ==
  /\ pc = "returned" /\ out.op = "executeMove" /\ out.value # InvalidMove
  /\ out.given.moves # <<>>
  /\ out.value.vials # out.given.vials
  /\ \E i \in 1..Len(initialVials) :
        i # out.from + 1 /\ i # out.to + 1 /\ initialVials[i] # <<>>

\* the functional copy returned what the imperative copy returned before it
SameResults ==
  (pc = "done" /\ copy = "routes" /\ Len(out.calls) = 1
     /\ statesExplored < MAX_SEARCH_STATES("routes")) =>
    /\ thrown = out.calls[1].thrown
    /\ result = out.calls[1].result

\* C18: on every request on which neither budget is used up the two copies
\* of solvePuzzle return the same (both null, or the same annotated list),
\* and their isSolved and executeMove agree on every configuration
\* (isValidMove is the same text in both).
C18_SameFunction ==
  out.op = "solvePuzzle" =>
    /\ SameResults
    /\ isSolvedM(GameState(initialVials, <<>>), strictMode)
         = isSolvedR(GameState(initialVials, <<>>), strictMode)
    /\ \A q \in Pairs(initialVials) :
         executeMoveM(GameState(initialVials, <<>>), q[1], q[2])
           = executeMoveR(GameState(initialVials, <<>>), q[1], q[2])

\* the nodes a step of the loop appended to the queue
Enqueued ==
  IF pc = "loop" /\ statesExplored' = statesExplored + 1
  THEN SubSeq(queue', Len(queue), Len(queue'))
  ELSE <<>>

\* no two nodes of the queue have equal vials and the key of each is in visited
QueueDistinctAndMarked ==
  \A k \in 1..Len(queue) :
     /\ toString(queue[k]) \in visited
     /\ \A j \in 1..(k - 1) : queue[j].vials # queue[k].vials

\* a node is queued only for a configuration that was not visited before the
\* step, and one step queues no configuration twice
EnqueuedFresh ==
  \A k \in 1..Len(Enqueued) :
     /\ toString(Enqueued[k]) \notin visited
     /\ toString(Enqueued[k]) \in visited'
     /\ \A j \in 1..(k - 1) : Enqueued[j].vials # Enqueued[k].vials

\* C21: throughout a solvePuzzle run a configuration is marked visited when
\* it is first generated and is queued at most once: the nodes of the queue
\* have pairwise different vials, two successors of one parent included, the
\* key of every queued node is in visited, and visited never loses a key
\* (either solver copy).
C21_DedupOnDiscovery ==
  /\ [](pc \in {"loop", "done"} => QueueDistinctAndMarked)
  /\ [][EnqueuedFresh /\ visited \subseteq visited']_vars

\* the same for the imperative copy alone
C21_DedupOnDiscoveryMiddleware ==
  /\ [](copy = "middleware" /\ pc \in {"loop", "done"} => QueueDistinctAndMarked)
  /\ [][copy = "middleware" => EnqueuedFresh /\ visited \subseteq visited']_vars

\* the path lengths along the queue never decrease and the last exceeds the
\* first by at most 1
QueueOrdered ==
  /\ \A k \in 1..(Len(queue) - 1) :
        Len(queue[k].moves) <= Len(queue[k + 1].moves)
  /\ queue # <<>> =>
        Len(queue[Len(queue)].moves) <= Len(Head(queue).moves) + 1

RECURSIVE PoursFrom(_, _, _, _)
\* the least number of valid pours, d for the frontier, that leads to target;
\* -1 if none does
PoursFrom(frontier, seen, target, d) ==
  IF target \in frontier THEN d
  ELSE IF frontier = {} THEN -1
  ELSE LET new == SpecSuccessors(frontier) \ seen
       IN PoursFrom(new, seen \cup new, target, d + 1)

\* the least number of valid pours from the initial configuration to vials
MinPours(vials) == PoursFrom({initialVials}, {initialVials}, vials, 0)

\* C22: at every point of a solvePuzzle run the path lengths in the queue are
\* non-decreasing from head to tail, the tail's exceeds the head's by at most
\* 1, a step queues only paths one longer than that of the node it dequeued
\* (so no longer path is dequeued before a shorter one), and the path length
\* of every queued node is the least number of valid pours that leads from
\* the initial configuration to the node's configuration (either solver copy).
C22_BreadthFirst ==
  /\ [](pc \in {"loop", "done"} =>
          /\ QueueOrdered
          /\ \A k \in 1..Len(queue) :
                Len(queue[k].moves) = MinPours(queue[k].vials))
  /\ [][\A k \in 1..Len(Enqueued) :
           Len(Enqueued[k].moves) = Len(Head(queue).moves) + 1]_vars

\* the same for the imperative copy alone
C22_BreadthFirstMiddleware ==
  /\ [](copy = "middleware" /\ pc \in {"loop", "done"} =>
          /\ QueueOrdered
          /\ \A k \in 1..Len(queue) :
                Len(queue[k].moves) = MinPours(queue[k].vials))
  /\ [][copy = "middleware" =>
          \A k \in 1..Len(Enqueued) :
             Len(Enqueued[k].moves) = Len(Head(queue).moves) + 1]_vars

\* (from, to) pairs compared by from and then by to
PairBefore(a, b) == a.from < b.from \/ (a.from = b.from /\ a.to < b.to)

\* the move that led to a successor
LastMove(state) == state.moves[Len(state.moves)]

\* the successors of a node are those of exactly its valid pairs, in
\* ascending from and then ascending to order
SuccessorsInOrder(state) ==
  \E nextStates \in {generateNextStates(copy, state)} :
     /\ {<<LastMove(nextStates[k]).from, LastMove(nextStates[k]).to>> :
            k \in 1..Len(nextStates)}
          = {q \in Pairs(state.vials) : isValidMove(state, q[1], q[2])}
     /\ \A k \in 1..(Len(nextStates) - 1) :
           PairBefore(LastMove(nextStates[k]), LastMove(nextStates[k + 1]))

\* no solving sequence as long as moves branches off moves at some position
\* with a pair that comes before the one moves has there
LeastAmongShortest(moves) ==
  \A i \in 1..Len(moves) :
     \E before \in {SpecReplay(initialVials, SubSeq(moves, 1, i - 1)).vials} :
        \A q \in Pairs(before) :
           (/\ isValidMove(GameState(before, <<>>), q[1], q[2])
            /\ PairBefore([from |-> q[1], to |-> q[2]], moves[i]))
           => ~SolvedWithin({SpecPour(before, q[1], q[2])}, Len(moves) - i,
                            copy, strictMode)

\* C23: generateNextStates emits the successors of exactly the valid
\* (from, to) pairs in ascending from, then ascending to order; the move
\* list solvePuzzle returns for an initial configuration within capacity
\* solves it, is a shortest solving sequence and is the least of those in the
\* order of the (from, to) pairs; for [[r,r],[r,r]] in strict mode it is
\* exactly [from 0, to 1, r, 2 units] (either solver copy).
C23_TieBreak ==
  /\ (pc = "loop" /\ queue # <<>>) => SuccessorsInOrder(Head(queue))
  /\ (WithinCapacity /\ ReturnedList) =>
        /\ SoundAnswer
        /\ ShortestAnswer
        /\ LeastAmongShortest(result.moves)
  /\ (ReturnedList /\ strictMode
        /\ initialVials = <<<<"r", "r">>, <<"r", "r">>>>) =>
        result.moves = <<MoveWithColor(0, 1, "r", 2)>>

\* the same for the imperative copy alone
C23_TieBreakMiddleware == copy = "middleware" => C23_TieBreak

\* the (from, to) pairs of different vials of the initial configuration
MaxSuccessors == Len(initialVials) * (Len(initialVials) - 1)

\* C24 as stated: during a solvePuzzle run neither the number of keys in
\* visited nor the number of nodes in the queue exceeds MAX_SEARCH_STATES.
C24_BudgetBoundsMemory ==
  /\ Cardinality(visited) <= MAX_SEARCH_STATES(copy)
  /\ Len(queue) <= MAX_SEARCH_STATES(copy)

\* C24 amended: the budget counts the dequeued nodes; with N vials each of
\* them adds at most N * (N - 1) keys and nodes, so neither the number of
\* keys in visited nor the number of nodes in the queue exceeds
\* 1 + statesExplored * N * (N - 1), and statesExplored <= MAX_SEARCH_STATES.
C24_BudgetBoundsDequeues ==
  /\ statesExplored <= MAX_SEARCH_STATES(copy)
  /\ Cardinality(visited) <= 1 + statesExplored * MaxSuccessors
  /\ Len(queue) <= 1 + statesExplored * MaxSuccessors

\* C24 witness: the search gave up on its budget with more keys in visited
\* than the budget
C24_Witness ==
  /\ pc = "done" /\ result.isNull /\ ~thrown
  /\ statesExplored = MAX_SEARCH_STATES(copy)
  /\ Cardinality(visited) > MAX_SEARCH_STATES(copy)

\* every vial holds at most 4 entries and some color occurs more than 4 times
OverRepresented(vials) ==
  /\ \A i \in 1..Len(vials) : Len(vials[i]) <= MAX_VIAL_CAPACITY
  /\ \E col \in Colors : ColorTotal(vials, col) > MAX_VIAL_CAPACITY

\* C25: on a configuration with all vials of length <= 4 in which some
\* color occurs more than 4 times isSolved is false in strict mode, and for
\* such an initial configuration solvePuzzle in strict mode returns null,
\* never a move list (either solver copy).
C25_StrictUnsatisfiable ==
  strictMode =>
    /\ \A node \in SearchNodes \cup {GameState(initialVials, <<>>)} :
          OverRepresented(node.vials) => ~isSolved(copy, node, TRUE)
    /\ (OverRepresented(initialVials) /\ Returned) => result.isNull

\* the same for the imperative copy alone
C25_StrictUnsatisfiableMiddleware == copy = "middleware" => C25_StrictUnsatisfiable

\* the solve request a solution answers, were it issued now
CurrentRequest == [gameState |-> hook.gameState, strictMode |-> hook.isStrictMode]

\* C26: whenever the hook's solution is non-null it is the response to a
\* solve request that was issued with the current gameState and the current
\* isStrictMode, under every interleaving of requests, responses, edits,
\* resets and uploads.
C26_NoStaleSolution == ~hook.solution.isNull => hook.answered = CurrentRequest

\* the requests that were sent and have not completed
Pending == {request \in BagToSet(inflight) : request.kind \in {"solve", "analyze"}}

\* C27: isLoading is true exactly when at least one solve or analyze request
\* is in flight; the completion of one request does not clear it while
\* another is pending.
C27_LoadingFlag == hook.isLoading <=> Pending # {}

\* the index of the state the viewer shows is one of vialStates, which has
\* one state more than the solution has moves once the reset effect has run
StepInRange ==
  Displayed =>
    /\ 0 <= viewer.currentStep /\ viewer.currentStep <= Len(vialStates) - 1
    /\ ~viewer.resetDue => Len(vialStates) = Len(hook.solution.moves) + 1

\* step-back at step 0 and step-forward at the last step change nothing
EndsStay ==
  /\ (handleStepBack /\ viewer.currentStep = 0) =>
        viewer'.currentStep = viewer.currentStep
  /\ (handleStepForward /\ viewer.currentStep = Len(vialStates) - 1) =>
        viewer'.currentStep = viewer.currentStep

\* the reset effect, run for a change of gameState or solution, leaves
\* step 0 and no animation
ResetTakesEffect ==
  (viewer.resetDue /\ ~viewer'.resetDue) =>
    viewer'.currentStep = 0 /\ ~viewer'.isAnimating

\* C28: while a successful solution is displayed, after any clicks and timer
\* firings, 0 <= currentStep <= vialStates.length - 1 with vialStates.length
\* = solution.moves.length + 1; stepping back at step 0 or forward at the
\* last step leaves currentStep unchanged; a change of gameState or solution
\* resets currentStep to 0 and isAnimating to false.
C28_StepInRange == []StepInRange /\ [][EndsStay /\ ResetTakesEffect]_vars

\* a click or an edit
UserInput ==
  \/ updateGameState
  \/ handleStrictModeChange
  \/ handleSolve
  \/ handlePlayPause
  \/ handleStepBack
  \/ handleStepForward
  \/ handleReset

\* the viewer shows the last state and the animation is off
AtEnd == viewer.currentStep = Len(vialStates) - 1 /\ ~viewer.isAnimating

TimerAdvancesByOne == animationTimer => viewer'.currentStep = viewer.currentStep + 1

\* left to itself an animation ends at the last state only: what else ends
\* it is a click, an edit, or the reset effect for changed props
StopsOnlyAtEnd ==
  (viewer.isAnimating /\ ~viewer'.isAnimating) =>
    (UserInput \/ viewer.resetDue \/ AtEnd')

\* the props change through a click, an edit or the answer to a request
ResetNeedsCause ==
  (~viewer.resetDue /\ viewer'.resetDue) => (UserInput \/ inflight # EmptyBag)

\* a step or reset click that acts while animating ends the animation and
\* leaves no timer behind
ManualStepStops ==
  ((handleStepBack \/ handleStepForward \/ handleReset)
     /\ viewer.isAnimating /\ viewer' # viewer) =>
    ~viewer'.isAnimating /\ ~viewer'.animationTimer

PathConsistent(node) ==
  LET replay == SpecReplay(initialVials, node.moves)
  IN replay.ok /\ replay.vials = node.vials

\* C30: at every point of a solvePuzzle run, replaying the move list of any
\* queued node from the initial configuration under the specified pour rule
\* uses only valid moves and yields that node's vials; the node the search
\* starts from has the empty move list (either solver copy).
C30_PathConsistency ==
  /\ [](pc \in {"loop", "done"} =>
         \A k \in 1..Len(queue) : PathConsistent(queue[k]))
  /\ [][pc = "request" /\ pc' = "loop" =>
          queue' = <<GameState(initialVials, <<>>)>>]_vars

\* the same for the imperative copy alone
C30_PathConsistencyMiddleware ==
  [](copy = "middleware" /\ pc \in {"loop", "done"} =>
       \A k \in 1..Len(queue) : PathConsistent(queue[k]))

====
